---- MODULE Spec2Model ----
(***************************************************************************)
(* gitlab-prometheus-exporter: the scrape loop, the aggregation functions, *)
(* the failure memory (_seen), the metrics store and the Expositor that    *)
(* reads it from the http server thread.                                   *)
(***************************************************************************)
EXTENDS Integers, Sequences, FiniteSets, TLC

\* ---------------------------------------------------------------- bounds
\* pipeline ids the GitLab instance hands out: 1..MaxId
MaxId == 1
\* UTC days the clock runs through: 0..MaxDay
MaxDay == 1
\* scrape cycles the loop starts
MaxCycles == 3
\* records per page of the pipelines API
PerPage == 2
\* records of the batches the aggregation functions are applied to on their own
MaxBatch == 2

\* ------------------------------------------------------------- constants
PROJECTS == <<"org/app", "org/lib">>
BRANCHES == <<"master", "main">>
DURATION_BUCKETS == <<180, 300, 600, 900, 1200, 1500, 1800, 2100, 2400, 2700>>
\* the "+Inf" entry appended to the ladder; float("+Inf") is above every duration
PlusInf == -1
\* START = None before the first scrape
None == -2
\* utcnow().date() truncates the watermark to a whole day
SecondsPerDay == 86400
\* run times (seconds between two updates of a pipeline) the source produces
RunTimes == {180, 3000}

\* the project and ref of pipeline i: the ids go round the configured pairs
Placement(i) ==
    [project |-> PROJECTS[((i - 1) % Len(PROJECTS)) + 1],
     ref     |-> BRANCHES[(((i - 1) \div Len(PROJECTS)) % Len(BRANCHES)) + 1]]

\* ---------------------------------------------------------------- helpers
Range(s) == {s[i] : i \in DOMAIN s}

InSeq(x, s) == \E i \in DOMAIN s : s[i] = x

Min(a, b) == IF a < b THEN a ELSE b

RECURSIVE Flatten(_)
Flatten(ss) == IF ss = <<>> THEN <<>> ELSE Head(ss) \o Flatten(Tail(ss))

RECURSIVE SumSeq(_)
SumSeq(s) == IF s = <<>> THEN 0 ELSE Head(s) + SumSeq(Tail(s))

Pairs == Range(PROJECTS) \X Range(BRANCHES)

\* ------------------------------------------------------- Pipeline Fetcher
\* The records of the source the API selects for one project and one ref:
\* updated_after keeps the records updated after the date, status the
\* records of that status.
Selected(src, project, params) ==
    {i \in DOMAIN src :
        /\ src[i].project = project
        /\ src[i].ref = params.ref
        /\ ("updated_after" \in DOMAIN params
               => src[i].updated_at > params.updated_after * SecondsPerDay)
        /\ ("status" \in DOMAIN params => src[i].status = params.status)}

\* order_by='updated_at', sort='asc' (ties in id order)
RECURSIVE Ordered(_, _)
Ordered(src, S) ==
    IF S = {} THEN <<>>
    ELSE LET m == CHOOSE i \in S : \A j \in S :
                     \/ src[i].updated_at < src[j].updated_at
                     \/ src[i].updated_at = src[j].updated_at /\ i <= j
         IN  <<src[m]>> \o Ordered(src, S \ {m})

\* response.json() of the request for one page
ServerPage(list, page) ==
    SubSeq(list, (page - 1) * PerPage + 1, Min(page * PerPage, Len(list)))

\* the while-loop over pages: yield each page until an empty one comes back
RECURSIVE Paginate(_, _)
Paginate(list, page) ==
    LET data == ServerPage(list, page)
    IN  IF data = <<>> THEN <<>> ELSE data \o Paginate(list, page + 1)

get_gitlab_pipelines(src, project, kwargs) ==
    Flatten([b \in DOMAIN BRANCHES |->
        LET params == [ref |-> BRANCHES[b]] @@ kwargs
        IN  Paginate(Ordered(src, Selected(src, project, params)), 1)])

retrieve_gitlab_pipelines(src, kwargs) ==
    [project \in Range(PROJECTS) |-> get_gitlab_pipelines(src, project, kwargs)]

\* ------------------------------------------------------------- Aggregator
\* data.items() iterates in insertion order, the order of PROJECTS
Keys(data) == SelectSeq(PROJECTS, LAMBDA p : p \in DOMAIN data)

CountRef(pipelines, branch) ==
    Len(SelectSeq(pipelines, LAMBDA pl : pl.ref = branch))

\* counts[project] created at the first matching pipeline only
gitlab_pipelines_total_lazy(data) ==
    Flatten([b \in DOMAIN BRANCHES |->
        LET present == SelectSeq(Keys(data),
                           LAMBDA p : CountRef(data[p], BRANCHES[b]) > 0)
        IN  [k \in DOMAIN present |->
                [value  |-> CountRef(data[present[k]], BRANCHES[b]),
                 labels |-> <<present[k], BRANCHES[b]>>]]])

gitlab_pipelines_total(data) ==
    Flatten([b \in DOMAIN BRANCHES |->
        [k \in DOMAIN Keys(data) |->
            [value  |-> CountRef(data[Keys(data)[k]], BRANCHES[b]),
             labels |-> <<Keys(data)[k], BRANCHES[b]>>]]])

\* a duration for every finished pipeline, failed ones included
calculate_duration_finished(pipeline) ==
    IF pipeline.status \notin {"success", "failed"}
    THEN [ok |-> FALSE, seconds |-> 0]
    ELSE [ok |-> TRUE, seconds |-> pipeline.updated_at - pipeline.created_at]

\* raises IncompletePipeline (ok = FALSE) unless the status is "success"
calculate_duration(pipeline) ==
    IF pipeline.status # "success"
    THEN [ok |-> FALSE, seconds |-> 0]
    ELSE [ok |-> TRUE, seconds |-> pipeline.updated_at - pipeline.created_at]

duration_buckets == DURATION_BUCKETS \o <<PlusInf>>

\* duration <= float(bucket)
AtOrBelowBucket(duration, bucket) == bucket = PlusInf \/ duration <= bucket

\* duration < float(bucket)
BelowBucket(duration, bucket) == bucket = PlusInf \/ duration < bucket

\* a non-cumulative histogram: only the first bucket above the duration
find_first_bucket(duration) ==
    LET above == SelectSeq(duration_buckets,
                           LAMBDA bucket : BelowBucket(duration, bucket))
    IN  IF above = <<>> THEN <<>> ELSE <<Head(above)>>

find_applicable_buckets(duration) ==
    SelectSeq(duration_buckets, LAMBDA bucket : BelowBucket(duration, bucket))

\* the records of one project that reach the increment for one branch
Observed(pipelines, branch) ==
    SelectSeq(pipelines,
              LAMBDA pl : pl.ref = branch /\ calculate_duration(pl).ok)

\* the durations of the project's pipelines of every branch
ObservedDurationsAnyBranch(pipelines, branch) ==
    LET done == SelectSeq(pipelines, LAMBDA pl : calculate_duration(pl).ok)
    IN  [i \in DOMAIN done |-> calculate_duration(done[i]).seconds]

ObservedDurations(pipelines, branch) ==
    [i \in DOMAIN Observed(pipelines, branch) |->
        calculate_duration(Observed(pipelines, branch)[i]).seconds]

\* counts[project][bucket] after the loop over the project's pipelines
BucketCount(durs, bucket) ==
    Len(SelectSeq(durs, LAMBDA d : InSeq(bucket, find_applicable_buckets(d))))

\* counts holds a project only once one of its pipelines was observed
HistogramKeys(data, branch) ==
    SelectSeq(Keys(data), LAMBDA p : Observed(data[p], branch) # <<>>)

gitlab_pipeline_duration_seconds(data) ==
    Flatten([b \in DOMAIN BRANCHES |->
        LET keys == HistogramKeys(data, BRANCHES[b])
        IN  [k \in DOMAIN keys |->
                LET durs == ObservedDurations(data[keys[k]], BRANCHES[b])
                IN  [buckets |-> [n \in DOMAIN duration_buckets |->
                                     <<duration_buckets[n],
                                       BucketCount(durs, duration_buckets[n])>>],
                     sum     |-> SumSeq(durs),
                     labels  |-> <<keys[k], BRANCHES[b]>>]]])

\* --------------------------------------------------------- Failure Memory
\* _seen.get(project, [])
SeenGet(seen, project) ==
    IF project \in DOMAIN seen THEN seen[project] ELSE <<>>

\* only the failures not remembered yet
_errored_new(seen, project, pipelines) ==
    SelectSeq(pipelines,
              LAMBDA p : p.status = "failed" /\ ~InSeq(p.id, SeenGet(seen, project)))

\* only the current status
_errored_status(seen, project, pipelines) ==
    SelectSeq(pipelines, LAMBDA p : p.status = "failed")

\* the failed records followed by the remembered ones
_errored_concat(seen, project, pipelines) ==
    SelectSeq(pipelines, LAMBDA p : p.status = "failed")
    \o SelectSeq(pipelines, LAMBDA p : InSeq(p.id, SeenGet(seen, project)))

\* the list _errored returns
_errored(seen, project, pipelines) ==
    SelectSeq(pipelines,
              LAMBDA p : p.status = "failed" \/ InSeq(p.id, SeenGet(seen, project)))

\* the ids of the errors added to the memory
SeenAfterUnion(seen, project, pipelines) ==
    LET errors == _errored(seen, project, pipelines)
    IN  SeenGet(seen, project) \o
        SelectSeq([i \in DOMAIN errors |-> errors[i].id],
                  LAMBDA id : ~InSeq(id, SeenGet(seen, project)))

\* _seen[project] after _errored
SeenAfter(seen, project, pipelines) ==
    LET errors == _errored(seen, project, pipelines)
    IN  [i \in DOMAIN errors |-> errors[i].id]

\* the dictionary errored returns
errored(seen, data) ==
    [project \in DOMAIN data |-> _errored(seen, project, data[project])]

\* _seen after errored(data)
SeenAfterAll(seen, data) ==
    [project \in DOMAIN seen \cup DOMAIN data |->
        IF project \in DOMAIN data
        THEN SeenAfter(seen, project, data[project])
        ELSE seen[project]]

\* ------------------------------------------------------------------ state
VARIABLES
    source,         \* the GitLab instance: pipeline id -> record
    today,          \* the UTC day of the clock
    pc,             \* __main__: "boot", "in_progress", "sleep", "exited"
    cycle,          \* scrape cycles started so far
    START,          \* the watermark global
    _seen,          \* Failure Memory: project -> list of pipeline ids
    metrics,        \* the metrics store: family name -> family
    pipelines,      \* scrape's local: the batch of the cycle
    totals_family,  \* scrape's local gitlab_pipelines_total_family
    errors_family,  \* scrape's local gitlab_pipeline_errors_total_family
    outcome,        \* how the last cycle ended: "none", "published", "transport_error"
    prior,          \* history: the store as it was when the cycle began
    everErrored,    \* history: project -> ids _errored ever classified as errors
    rpc,            \* Expositor.collect: "idle", "sorted", "yielding"
    keys,           \* collect: the keys of sorted(metrics) not yet yielded
    got,            \* collect: the family objects yielded to the http handler
    histogram,      \* what gitlab_pipeline_duration_seconds(pipelines) yielded
    applied,        \* the aggregation functions were applied to pipelines
    error_pipelines, \* scrape's local: what errored(pipelines) returned
    seen_before,    \* history: _seen as it was before the cycle's errored()
    streak,         \* history: project -> ids seen failed and in every batch since
    overlap,        \* history: metrics.update ran during the collect call
    yielded,        \* history: pipeline id -> what find_applicable_buckets yielded
    replay          \* history of a second errored() on the same batch

vars == <<source, today, pc, cycle, START, _seen, metrics, pipelines,
          totals_family, errors_family, outcome, prior, everErrored,
          rpc, keys, got, histogram, applied, error_pipelines, seen_before,
          streak, overlap, yielded, replay>>

srcVars == <<source, today>>
mainVars == <<pc, cycle, START, _seen, metrics, pipelines, totals_family,
              errors_family, outcome, prior, everErrored, error_pipelines,
              seen_before, streak>>
readerVars == <<rpc, keys, got, overlap>>
aggVars == <<histogram, applied, yielded, replay>>

NoReplay == [done |-> FALSE, seen |-> <<>>, errors |-> <<>>]

\* family names in the order sorted() gives them
FamilyNames == <<"gitlab_in_progress_pipelines",
                 "gitlab_pipeline_duration_seconds",
                 "gitlab_pipeline_errors_total",
                 "gitlab_pipelines_total">>

\* a metric family built in cycle c (the cycle is history, not a field of
\* the prometheus object)
Family(name, samples, c) == [name |-> name, samples |-> samples, cycle |-> c]

\* which family object it is: the families of two cycles are two objects,
\* whatever their samples
Identity(family) == <<family.name, family.cycle>>

NoData == [project \in {} |-> <<>>]

\* The state at line 241: the Expositor is registered (REGISTRY.register
\* runs collect once on the empty store to learn the names, in the main
\* thread and for no request), no scrape has run, no server is started.
Init ==
    /\ source = <<>>
    /\ today = 0
    /\ pc = "boot"
    /\ cycle = 0
    /\ START = None
    /\ _seen = NoData
    /\ metrics = NoData
    /\ pipelines = NoData
    /\ totals_family = <<>>
    /\ errors_family = <<>>
    /\ outcome = "none"
    /\ prior = NoData
    /\ everErrored = [project \in Range(PROJECTS) |-> {}]
    /\ rpc = "idle"
    /\ keys = <<>>
    /\ got = <<>>
    /\ histogram = <<>>
    /\ applied = FALSE
    /\ error_pipelines = NoData
    /\ seen_before = NoData
    /\ streak = [project \in Range(PROJECTS) |-> {}]
    /\ overlap = FALSE
    /\ yielded = <<>>
    /\ replay = NoReplay

\* ------------------------------------------------------ the GitLab source
\* the instant of an update made now: not before the record's last update
Now(last) == IF last > today * SecondsPerDay + 1 THEN last
             ELSE today * SecondsPerDay + 1

Running == pc # "exited"

CreatePipeline ==
    /\ Running
    /\ Len(source) < MaxId
    /\ source' = Append(source,
           [id |-> Len(source) + 1,
            project |-> Placement(Len(source) + 1).project,
            ref |-> Placement(Len(source) + 1).ref,
            status |-> "running",
            created_at |-> Now(0), updated_at |-> Now(0)])
    /\ UNCHANGED <<today, mainVars, readerVars, aggVars>>

PipelineFails ==
    /\ Running
    /\ \E i \in DOMAIN source :
          /\ source[i].status = "running"
          /\ source' = [source EXCEPT ![i].status = "failed",
                                      ![i].updated_at = Now(@)]
    /\ UNCHANGED <<today, mainVars, readerVars, aggVars>>

PipelineRetried ==
    /\ Running
    /\ \E i \in DOMAIN source :
          /\ source[i].status = "failed"
          /\ source' = [source EXCEPT ![i].status = "running",
                                      ![i].updated_at = Now(@)]
    /\ UNCHANGED <<today, mainVars, readerVars, aggVars>>

PipelineSucceeds ==
    /\ Running
    /\ \E i \in DOMAIN source, d \in RunTimes :
          /\ source[i].status = "running"
          /\ source' = [source EXCEPT ![i].status = "success",
                                      ![i].updated_at = Now(@) + d]
    /\ UNCHANGED <<today, mainVars, readerVars, aggVars>>

Midnight ==
    /\ Running
    /\ today < MaxDay
    /\ today' = today + 1
    /\ UNCHANGED <<source, mainVars, readerVars, aggVars>>

\* ------------------------------------------------------------ scrape loop
\* scrape(), from its start to the errors family: START, the updated_after
\* fetch, the totals family, errored() and the errors family
ScrapeFetch ==
    /\ pc \in {"boot", "sleep"}
    /\ cycle < MaxCycles
    /\ LET batch == retrieve_gitlab_pipelines(source, [updated_after |-> today])
           errors == errored(_seen, batch)
       IN  /\ pipelines' = batch
           /\ error_pipelines' = errors
           /\ totals_family' = Family("gitlab_pipelines_total",
                                      gitlab_pipelines_total(batch), cycle + 1)
           /\ errors_family' = Family("gitlab_pipeline_errors_total",
                                      gitlab_pipelines_total(errors),
                                      cycle + 1)
           /\ _seen' = SeenAfterAll(_seen, batch)
           /\ everErrored' = [project \in Range(PROJECTS) |->
                  everErrored[project] \cup
                  {errors[project][i].id : i \in DOMAIN errors[project]}]
           /\ streak' = [project \in Range(PROJECTS) |->
                  {batch[project][i].id : i \in
                      {k \in DOMAIN batch[project] :
                          \/ batch[project][k].status = "failed"
                          \/ batch[project][k].id \in streak[project]}}]
    /\ seen_before' = _seen
    /\ START' = today
    /\ cycle' = cycle + 1
    /\ prior' = metrics
    /\ pc' = "in_progress"
    /\ UNCHANGED <<srcVars, metrics, outcome, readerVars, aggVars>>

\* response.raise_for_status() (or session.get) raises in the updated_after
\* fetch; nothing catches it in scrape or in __main__
ScrapeFetchFails ==
    /\ pc \in {"boot", "sleep"}
    /\ cycle < MaxCycles
    /\ START' = today
    /\ cycle' = cycle + 1
    /\ prior' = metrics
    /\ seen_before' = _seen
    /\ outcome' = "transport_error"
    /\ pc' = "exited"
    /\ UNCHANGED <<srcVars, _seen, metrics, pipelines, totals_family,
                   errors_family, everErrored, error_pipelines, streak,
                   readerVars, aggVars>>

\* the rest of scrape(): the status="running" fetch, the in-progress and
\* the duration family, and metrics.update
ScrapeUpdate ==
    /\ pc = "in_progress"
    /\ LET in_progress_pipelines ==
               retrieve_gitlab_pipelines(source, [status |-> "running"])
           update ==
               [name \in Range(FamilyNames) |->
                  CASE name = "gitlab_pipelines_total" -> totals_family
                    [] name = "gitlab_pipeline_errors_total" -> errors_family
                    [] name = "gitlab_in_progress_pipelines" ->
                         Family(name,
                                gitlab_pipelines_total(in_progress_pipelines),
                                cycle)
                    [] name = "gitlab_pipeline_duration_seconds" ->
                         Family(name,
                                gitlab_pipeline_duration_seconds(pipelines),
                                cycle)]
       IN  metrics' = update @@ metrics
    /\ pipelines' = NoData
    /\ totals_family' = <<>>
    /\ errors_family' = <<>>
    /\ error_pipelines' = NoData
    /\ outcome' = "published"
    /\ prior' = NoData
    /\ seen_before' = NoData
    /\ overlap' = (rpc = "yielding")
    /\ pc' = "sleep"
    /\ UNCHANGED <<srcVars, cycle, START, _seen, everErrored, streak,
                   rpc, keys, got, aggVars>>

\* a scrape that puts each family into the store as soon as it is built
ScrapeRunningFetchFailsHalfway ==
    /\ pc = "in_progress"
    /\ metrics' = [name \in {"gitlab_pipelines_total",
                              "gitlab_pipeline_errors_total"} |->
                      IF name = "gitlab_pipelines_total"
                      THEN totals_family ELSE errors_family] @@ metrics
    /\ pipelines' = NoData
    /\ totals_family' = <<>>
    /\ errors_family' = <<>>
    /\ error_pipelines' = NoData
    /\ outcome' = "transport_error"
    /\ pc' = "exited"
    /\ UNCHANGED <<srcVars, cycle, START, _seen, prior, everErrored,
                   seen_before, streak, readerVars, aggVars>>

\* the status="running" fetch raises
ScrapeRunningFetchFails ==
    /\ pc = "in_progress"
    /\ pipelines' = NoData
    /\ totals_family' = <<>>
    /\ errors_family' = <<>>
    /\ error_pipelines' = NoData
    /\ outcome' = "transport_error"
    /\ pc' = "exited"
    /\ UNCHANGED <<srcVars, cycle, START, _seen, metrics, prior, everErrored,
                   seen_before, streak, readerVars, aggVars>>

\* ---------------------------------------------------------------- Expositor
\* start_http_server before the first scrape
ServingFromBoot == pc \in {"boot", "in_progress", "sleep"}

\* the http server runs from the end of the first scrape to the process's exit
Serving == pc = "sleep" \/ (pc = "in_progress" /\ cycle > 1)

\* for key in sorted(metrics)
CollectSorted ==
    /\ Serving
    /\ rpc = "idle"
    /\ keys' = SelectSeq(FamilyNames, LAMBDA k : k \in DOMAIN metrics)
    /\ got' = <<>>
    /\ overlap' = FALSE
    /\ rpc' = "yielding"
    /\ UNCHANGED <<srcVars, mainVars, aggVars>>

\* yield metrics[key]
CollectYield ==
    /\ Serving
    /\ rpc = "yielding"
    /\ keys # <<>>
    /\ got' = Append(got, Identity(metrics[Head(keys)]))
    /\ keys' = Tail(keys)
    /\ UNCHANGED <<rpc, overlap, srcVars, mainVars, aggVars>>

\* the generator is exhausted
CollectReturn ==
    /\ Serving
    /\ rpc = "yielding"
    /\ keys = <<>>
    /\ rpc' = "idle"
    /\ got' = <<>>
    /\ overlap' = FALSE
    /\ UNCHANGED <<keys, srcVars, mainVars, aggVars>>

Next ==
    \/ CreatePipeline
    \/ PipelineFails
    \/ PipelineRetried
    \/ PipelineSucceeds
    \/ Midnight
    \/ ScrapeFetch
    \/ ScrapeFetchFails
    \/ ScrapeUpdate
    \/ ScrapeRunningFetchFails
    \/ CollectSorted
    \/ CollectYield
    \/ CollectReturn

Spec == Init /\ [][Next]_vars

\* the sleep of __main__ returns and scrape() runs to its end or to its
\* exception: the steps of the main thread are taken when they can be
MainLoop == ScrapeFetch \/ ScrapeFetchFails \/ ScrapeUpdate \/ ScrapeRunningFetchFails

FairSpec == Init /\ [][Next]_vars /\ WF_vars(MainLoop)

\* ------------------------------------------- the aggregator on its own
\* The batches the aggregation functions are applied to: up to MaxBatch
\* records of any configured project and ref, of any status, with any of
\* the durations below when the status is "success".
AggDurations == {170, 180, 250, 3000}

Shapes ==
    {[project |-> p, ref |-> r, status |-> st, seconds |-> 170] :
        p \in Range(PROJECTS), r \in Range(BRANCHES),
        st \in {"running", "failed", "canceled"}}
    \cup
    {[project |-> p, ref |-> r, status |-> "success", seconds |-> d] :
        p \in Range(PROJECTS), r \in Range(BRANCHES), d \in AggDurations}

Record(i, shape) ==
    [id |-> i, project |-> shape.project, ref |-> shape.ref,
     status |-> shape.status,
     created_at |-> 1, updated_at |-> 1 + shape.seconds]

AggSources ==
    UNION {{[i \in 1..n |-> Record(i, f[i])] : f \in [1..n -> Shapes]} :
              n \in 0..MaxBatch}

\* the project of a remembered id: that of its record, and the first
\* project for the id of a pipeline older than the batch
ProjectOfId(src, i) ==
    IF i \in DOMAIN src THEN src[i].project ELSE PROJECTS[1]

RECURSIVE Ascending(_)
Ascending(S) ==
    IF S = {} THEN <<>>
    ELSE LET m == CHOOSE i \in S : \A j \in S : i <= j
         IN  <<m>> \o Ascending(S \ {m})

\* Failure Memory holding the ids of R
Remembered(src, R) ==
    [project \in Range(PROJECTS) |->
        Ascending({i \in R : ProjectOfId(src, i) = project})]

AggInit ==
    /\ source \in AggSources
    /\ today = 0
    /\ pc = "boot"
    /\ cycle = 0
    /\ START = None
    /\ \E R \in SUBSET (1..(Len(source) + 1)) : _seen = Remembered(source, R)
    /\ metrics = NoData
    /\ pipelines = retrieve_gitlab_pipelines(source, [updated_after |-> 0])
    /\ totals_family = <<>>
    /\ errors_family = <<>>
    /\ outcome = "none"
    /\ prior = NoData
    /\ everErrored = [project \in Range(PROJECTS) |-> {}]
    /\ rpc = "idle"
    /\ keys = <<>>
    /\ got = <<>>
    /\ histogram = <<>>
    /\ applied = FALSE
    /\ error_pipelines = NoData
    /\ seen_before = NoData
    /\ streak = [project \in Range(PROJECTS) |-> {}]
    /\ overlap = FALSE
    /\ yielded = <<>>
    /\ replay = NoReplay

\* the three aggregations scrape() makes of one batch
Aggregate ==
    /\ ~applied
    /\ totals_family' = Family("gitlab_pipelines_total",
                               gitlab_pipelines_total(pipelines), 0)
    /\ errors_family' = Family("gitlab_pipeline_errors_total",
                               gitlab_pipelines_total(errored(_seen, pipelines)),
                               0)
    /\ error_pipelines' = errored(_seen, pipelines)
    /\ seen_before' = _seen
    /\ _seen' = SeenAfterAll(_seen, pipelines)
    /\ histogram' = gitlab_pipeline_duration_seconds(pipelines)
    /\ yielded' = [i \in {source[k].id : k \in
                              {j \in DOMAIN source :
                                  calculate_duration(source[j]).ok}} |->
                      find_applicable_buckets(
                          calculate_duration(source[i]).seconds)]
    /\ applied' = TRUE
    /\ UNCHANGED <<srcVars, pc, cycle, START, metrics, pipelines, outcome,
                   prior, everErrored, streak, readerVars, replay>>

\* errored() once more on the same batch, as the next cycle runs it when
\* the source has not changed
Replay ==
    /\ applied
    /\ ~replay.done
    /\ replay' = [done |-> TRUE, seen |-> _seen,
                  errors |-> errors_family.samples]
    /\ errors_family' = Family("gitlab_pipeline_errors_total",
                               gitlab_pipelines_total(errored(_seen, pipelines)),
                               0)
    /\ error_pipelines' = errored(_seen, pipelines)
    /\ seen_before' = _seen
    /\ _seen' = SeenAfterAll(_seen, pipelines)
    /\ UNCHANGED <<srcVars, pc, cycle, START, metrics, pipelines,
                   totals_family, outcome, prior, everErrored, streak,
                   readerVars, histogram, applied, yielded>>

AggNext == Aggregate \/ Replay

AggSpec == AggInit /\ [][AggNext]_vars

\* ------------------------------------------------------------ properties
\* the value a family reports for a (project, branch) pair: the sum over its
\* samples of that label pair
RECURSIVE ValueOf(_, _)
ValueOf(samples, pair) ==
    IF samples = <<>> THEN 0
    ELSE (IF Head(samples).labels = pair THEN Head(samples).value ELSE 0)
         + ValueOf(Tail(samples), pair)

HasEntry(samples, pair) == \E k \in DOMAIN samples : samples[k].labels = pair

\* the records of a batch for one pair
RecordsOf(data, pair) ==
    {k \in DOMAIN data[pair[1]] : data[pair[1]][k].ref = pair[2]}

SuccessesOf(data, pair) ==
    {k \in RecordsOf(data, pair) : data[pair[1]][k].status = "success"}

\* C1: monotonic stickiness: once _errored classified an id as an error,
\* the error family of every later cycle counts it for its project (and
\* branch), whatever the source reports and whatever the batches held.
C1_MonotonicStickiness ==
    pc = "in_progress" =>
        \A pair \in Pairs :
            ValueOf(errors_family.samples, pair) >=
                Cardinality({i \in everErrored[pair[1]] :
                                source[i].ref = pair[2]})

\* C2: Failure Memory is append-only: the ids of _seen[project] in a state
\* are still in _seen[project] in every later state.
C2_SeenAppendOnly ==
    [][\A project \in DOMAIN _seen :
          /\ project \in DOMAIN _seen'
          /\ Range(_seen[project]) \subseteq Range(_seen'[project])]_vars

\* C3: snapshot swap atomicity: the families one Expositor.collect call
\* yields are all families of the same scrape cycle.
C3_NoMixedSnapshot ==
    \A i, j \in DOMAIN got : got[i][2] = got[j][2]

\* C4: a cycle that ends with a transport error leaves the metrics store
\* as it was when the cycle began.
C4_AbortKeepsStore ==
    outcome = "transport_error" => pc = "exited" /\ metrics = prior

\* a cycle after the first aborted in its status="running" fetch, with
\* four families in the store and a batch that would have changed them
C4_Witness ==
    /\ outcome = "transport_error"
    /\ cycle >= 2
    /\ DOMAIN metrics = Range(FamilyNames)
    /\ ValueOf(metrics["gitlab_pipelines_total"].samples,
               <<PROJECTS[1], BRANCHES[1]>>) = 0
    /\ Len(_seen[PROJECTS[1]]) = 1

CountFamilies == {"gitlab_pipelines_total", "gitlab_pipeline_errors_total",
                  "gitlab_in_progress_pipelines"}

\* C5: the store update of a successful cycle gives the totals, the errors
\* and the in-progress family an entry for every configured (project,
\* branch) pair, of value 0 for a pair with no matching record.
C5_EveryPairReported ==
    [][(pc = "in_progress" /\ pc' = "sleep") =>
        \A pair \in Pairs :
            /\ \A name \in CountFamilies :
                   HasEntry(metrics'[name].samples, pair)
            /\ RecordsOf(pipelines, pair) = {} =>
                   /\ ValueOf(metrics'["gitlab_pipelines_total"].samples,
                              pair) = 0
                   /\ ValueOf(metrics'["gitlab_pipeline_errors_total"].samples,
                              pair) = 0
            /\ RecordsOf(retrieve_gitlab_pipelines(source,
                                                   [status |-> "running"]),
                         pair) = {} =>
                   ValueOf(metrics'["gitlab_in_progress_pipelines"].samples,
                           pair) = 0]_vars

\* a published snapshot with a counted pipeline for one pair and zero
\* entries for another
C5_Witness ==
    /\ pc = "sleep"
    /\ outcome = "published"
    /\ ValueOf(metrics["gitlab_pipelines_total"].samples,
               <<PROJECTS[1], BRANCHES[1]>>) = 1
    /\ \A name \in CountFamilies :
           /\ HasEntry(metrics[name].samples, <<PROJECTS[2], BRANCHES[2]>>)
           /\ ValueOf(metrics[name].samples, <<PROJECTS[2], BRANCHES[2]>>) = 0

\* C6: the error counter is monotonic: the errors value a successful cycle
\* publishes for a pair is at least the value the store held before.
C6_ErrorsMonotonic ==
    [][(pc = "in_progress" /\ pc' = "sleep"
          /\ "gitlab_pipeline_errors_total" \in DOMAIN metrics) =>
        \A pair \in Pairs :
            ValueOf(metrics'["gitlab_pipeline_errors_total"].samples, pair) >=
            ValueOf(metrics["gitlab_pipeline_errors_total"].samples, pair)]_vars

\* C7: after a cycle of the loop (cycle 1 is the scrape before the loop)
\* aborted with a transport error, the scrape loop starts another cycle.
C7_RetriedNextInterval ==
    \A n \in 2..(MaxCycles - 1) :
        (outcome = "transport_error" /\ cycle = n) ~> (cycle > n)

\* the durations gitlab_pipeline_duration_seconds observes for one pair
DurationsOf(data, pair) ==
    {<<k, data[pair[1]][k].updated_at - data[pair[1]][k].created_at>> :
        k \in SuccessesOf(data, pair)}

Ladder(entry) == [n \in DOMAIN entry.buckets |-> entry.buckets[n][1]]

\* C8: the bucket counts of every emitted histogram do not decrease along
\* the ladder 180, ..., 2700, +Inf, and the +Inf count is the number of
\* records of the project on the branch whose status is "success".
C8_BucketsCumulative ==
    applied =>
        \A k \in DOMAIN histogram :
            LET entry == histogram[k]
            IN  /\ Ladder(entry) = duration_buckets
                /\ \A n \in 1..(Len(entry.buckets) - 1) :
                       entry.buckets[n][2] <= entry.buckets[n + 1][2]
                /\ entry.buckets[Len(entry.buckets)][2] =
                       Cardinality(SuccessesOf(pipelines, entry.labels))

\* a histogram of two successful pipelines, none below 180 s, one between
\* 180 s and 2700 s and one above
C8_Witness ==
    /\ applied
    /\ \E k \in DOMAIN histogram :
           /\ histogram[k].buckets[1][2] = 0
           /\ histogram[k].buckets[2][2] = 1
           /\ histogram[k].buckets[Len(duration_buckets) - 1][2] = 1
           /\ histogram[k].buckets[Len(duration_buckets)][2] = 2

\* C9: standard cumulative semantics: the count of the bucket of bound B is
\* the number of observed durations less than or equal to B.
C9_LessOrEqualBuckets ==
    applied =>
        \A k \in DOMAIN histogram :
            \A n \in DOMAIN histogram[k].buckets :
                LET bound == histogram[k].buckets[n][1]
                IN  histogram[k].buckets[n][2] =
                        Cardinality({o \in DurationsOf(pipelines,
                                                       histogram[k].labels) :
                                        bound = PlusInf \/ o[2] <= bound})

\* C10: when the batch is not empty, every configured pair without a
\* successful record has a histogram with the full ladder and zero counts.
C10_ZeroHistogramEmitted ==
    (applied /\ \E project \in DOMAIN pipelines : pipelines[project] # <<>>) =>
        \A pair \in Pairs :
            SuccessesOf(pipelines, pair) = {} =>
                \E k \in DOMAIN histogram :
                    /\ histogram[k].labels = pair
                    /\ Ladder(histogram[k]) = duration_buckets
                    /\ \A n \in DOMAIN histogram[k].buckets :
                           histogram[k].buckets[n][2] = 0

\* the records of a batch with the records that are not "success" removed
SuccessOnly(data) ==
    [project \in DOMAIN data |->
        SelectSeq(data[project], LAMBDA pl : pl.status = "success")]

FailedOf(data, pair) ==
    {k \in RecordsOf(data, pair) : data[pair[1]][k].status = "failed"}

\* C11: a record whose status is not "success" changes no bucket count and
\* no duration sum of the histogram; it still adds 1 to the totals of its
\* pair and, when it is "failed", 1 to the errors.
C11_OnlySuccessObserved ==
    applied =>
        /\ histogram = gitlab_pipeline_duration_seconds(SuccessOnly(pipelines))
        /\ \A pair \in Pairs :
              /\ ValueOf(totals_family.samples, pair) =
                     Cardinality(RecordsOf(pipelines, pair))
              /\ ValueOf(errors_family.samples, pair) >=
                     Cardinality(FailedOf(pipelines, pair))

\* a pair with a failed and a successful record: totals 2, errors 1 and a
\* histogram of one observation
C11_Witness ==
    /\ applied
    /\ \E pair \in Pairs :
          /\ Cardinality(FailedOf(pipelines, pair)) = 1
          /\ ValueOf(totals_family.samples, pair) = 2
          /\ ValueOf(errors_family.samples, pair) = 1
          /\ \E k \in DOMAIN histogram :
                /\ histogram[k].labels = pair
                /\ histogram[k].buckets[Len(duration_buckets)][2] = 1

\* C12: errored() run a second time on the same batch leaves Failure Memory
\* as the first run left it and yields the same error counts.
C12_ErroredIdempotent ==
    replay.done =>
        /\ _seen = replay.seen
        /\ errors_family.samples = replay.errors

\* a replay in which a remembered pipeline that is now "success" and a
\* failed pipeline are counted
C12_Witness ==
    /\ replay.done
    /\ \E project \in DOMAIN error_pipelines :
          /\ \E k \in DOMAIN error_pipelines[project] :
                error_pipelines[project][k].status = "success"
          /\ \E k \in DOMAIN error_pipelines[project] :
                error_pipelines[project][k].status = "failed"

\* C13: find_applicable_buckets(d) yields exactly the buckets of the ladder
\* whose bound is strictly greater than d, in ascending order; for d = 250
\* these are 300 and every larger bucket, +Inf included, and not 180.
C13_ApplicableBuckets ==
    applied =>
        \A i \in DOMAIN yielded :
            LET d == source[i].updated_at - source[i].created_at
                first == Len(duration_buckets) - Len(yielded[i]) + 1
            IN  /\ \A n \in DOMAIN duration_buckets :
                       InSeq(duration_buckets[n], yielded[i]) <=>
                           (duration_buckets[n] = PlusInf
                                \/ duration_buckets[n] > d)
                /\ yielded[i] = SubSeq(duration_buckets, first,
                                       Len(duration_buckets))
                /\ d = 250 =>
                       yielded[i] = <<300, 600, 900, 1200, 1500, 1800, 2100,
                                      2400, 2700, PlusInf>>

\* pipelines of durations 250 s and 180 s went through the function
C13_Witness ==
    /\ applied
    /\ \E i, j \in DOMAIN yielded :
          /\ source[i].updated_at - source[i].created_at = 250
          /\ yielded[i][1] = 300
          /\ source[j].updated_at - source[j].created_at = 180
          /\ yielded[j][1] = 300

IdsOf(records) == {records[k].id : k \in DOMAIN records}

C15_RetryStaysCounted ==
    pc = "in_progress" =>
        /\ \A project \in Range(PROJECTS) :
               streak[project] \subseteq IdsOf(error_pipelines[project])
        /\ \A pair \in Pairs :
               ValueOf(errors_family.samples, pair) =
                   Cardinality(RecordsOf(error_pipelines, pair))

\* a later cycle counts a pipeline that is now "success"
C15_Witness ==
    /\ pc = "in_progress"
    /\ cycle >= 2
    /\ \E project \in Range(PROJECTS) :
          \E k \in DOMAIN error_pipelines[project] :
              /\ error_pipelines[project][k].status = "success"
              /\ error_pipelines[project][k].id \in streak[project]
              /\ ValueOf(errors_family.samples,
                         <<project, error_pipelines[project][k].ref>>) = 1

RECURSIVE SumDurations(_)
SumDurations(S) ==
    IF S = {} THEN 0
    ELSE LET o == CHOOSE x \in S : TRUE
         IN  o[2] + SumDurations(S \ {o})

\* C16: the sum of every emitted histogram is the sum of updated_at -
\* created_at over exactly the "success" records of its project and branch.
C16_SumPerPair ==
    applied =>
        /\ \A k \in DOMAIN histogram :
               histogram[k].sum =
                   SumDurations(DurationsOf(pipelines, histogram[k].labels))
        /\ \A k, n \in DOMAIN histogram :
               histogram[k].labels = histogram[n].labels => k = n

\* two branches of one project with different sums
C16_Witness ==
    /\ applied
    /\ \E k, n \in DOMAIN histogram :
          /\ histogram[k].labels[1] = histogram[n].labels[1]
          /\ histogram[k].labels[2] # histogram[n].labels[2]
          /\ histogram[k].sum = 180
          /\ histogram[n].sum = 250

\* C17: a cycle that aborts with a transport error leaves Failure Memory as
\* it was before the cycle began.
C17_AbortKeepsMemory ==
    outcome = "transport_error" =>
        \A project \in Range(PROJECTS) :
            Range(SeenGet(_seen, project)) =
                Range(SeenGet(seen_before, project))

\* C18: in every published snapshot the errors count of a pair is at most
\* its totals count.
C18_ErrorsAtMostTotals ==
    "gitlab_pipelines_total" \in DOMAIN metrics =>
        \A pair \in Pairs :
            ValueOf(metrics["gitlab_pipeline_errors_total"].samples, pair) <=
            ValueOf(metrics["gitlab_pipelines_total"].samples, pair)

\* a snapshot of a later cycle in which the one pipeline of a pair is an error
C18_Witness ==
    /\ pc = "sleep"
    /\ cycle >= 2
    /\ \E pair \in Pairs :
          /\ ValueOf(metrics["gitlab_pipeline_errors_total"].samples, pair) = 1
          /\ ValueOf(metrics["gitlab_pipelines_total"].samples, pair) = 1
          /\ metrics["gitlab_pipelines_total"].cycle >= 2

\* C19: a collect call runs only once the first scrape has filled the
\* store, and a call that no store update overlaps yields exactly the four
\* families of the store, in ascending order of name.
C19_ServesWholeStore ==
    /\ rpc = "yielding" => DOMAIN metrics = Range(FamilyNames)
    /\ (rpc = "yielding" /\ keys = <<>> /\ ~overlap) =>
          got = [n \in DOMAIN FamilyNames |-> Identity(metrics[FamilyNames[n]])]

\* a call that yielded the four families of a later cycle
C19_Witness ==
    /\ rpc = "yielding"
    /\ keys = <<>>
    /\ ~overlap
    /\ Len(got) = 4
    /\ got[1][2] >= 2

====
